---- MODULE Spec2Model ----
(***************************************************************************)
(* Model of the authdecode conversion utilities:                           *)
(*   src/authdecode/src/utils.rs               (bit codec)                 *)
(*   src/authdecode/src/backend/halo2/utils.rs (field bridge, limbs,       *)
(*                                              delta matrices)            *)
(* All functions are pure.  Every behaviour is one call: the initial state *)
(* holds the function to call and its argument, the single step applies    *)
(* the function and stores what it returned (or that it panicked).         *)
(*                                                                         *)
(* Representations                                                         *)
(*   Vec<bool> / [bool; N]  sequence of BOOLEAN, MSB first                 *)
(*   Vec<u8>                sequence of 0..255                             *)
(*   BigUint                little-endian sequence of base-256 digits      *)
(*                          without trailing zero digits; zero is << >>    *)
(*   F (bn256 Fr)           the BigUint of the canonical residue (< r)     *)
(*   a call's outcome       [ok |-> TRUE, val |-> v] or Panic              *)
(***************************************************************************)
EXTENDS Integers, Sequences, FiniteSets

VARIABLES pc, call, arg, res

vars == <<pc, call, arg, res>>

\* A panicking call (unwrap, assert!, slice index out of range, overflow).
Panic == [ok |-> FALSE, val |-> <<>>]

Ok(v) == [ok |-> TRUE, val |-> v]

\* The value of res before the call has been made.
NoResult == [ok |-> FALSE, val |-> <<"pending">>]

Min(a, b) == IF a < b THEN a ELSE b

Pow2(k) == IF k = 0 THEN 1 ELSE IF k = 1 THEN 2 ELSE IF k = 2 THEN 4
           ELSE IF k = 3 THEN 8 ELSE IF k = 4 THEN 16 ELSE IF k = 5 THEN 32
           ELSE IF k = 6 THEN 64 ELSE IF k = 7 THEN 128 ELSE 256

Zeros(n) == [i \in 1..n |-> 0]

Reverse(s) == [i \in 1..Len(s) |-> s[Len(s) + 1 - i]]

(***************************************************************************)
(* Bit codec: src/authdecode/src/utils.rs                                  *)
(***************************************************************************)

\* *b as u8
BoolAsU8(b) == IF b THEN 1 ELSE 0

\* x << k on u8: bits shifted past bit 7 are lost.
Shl8(x, k) == (x * Pow2(k)) % 256

\* x | y on u8.
BitOr8(x, y) ==
    LET bit(z, k) == (z \div Pow2(k)) % 2
        or(k) == IF bit(x, k) = 1 \/ bit(y, k) = 1 THEN Pow2(k) ELSE 0
    IN  or(0) + or(1) + or(2) + or(3) + or(4) + or(5) + or(6) + or(7)

\* Mutant of FirstByteLoop: the leading bits are left-aligned in the first
\* byte (shift by 7 - i), as for the later bytes.
RECURSIVE FirstByteLoop_LeftAligned(_, _, _, _)
FirstByteLoop_LeftAligned(v, bv, fbs, i) ==
    IF i >= fbs THEN v
    ELSE FirstByteLoop_LeftAligned(
            [v EXCEPT ![(i \div 8) + 1] =
                BitOr8(@, Shl8(BoolAsU8(bv[i + 1]), 7 - i))],
            bv, fbs, i + 1)

\* The first loop of boolvec_to_u8vec: i runs over bv[0..first_byte_bitsize]
\* (i is the 0-based index), v[i / 8] |= b << (first_byte_bitsize - 1 - i).
RECURSIVE FirstByteLoop(_, _, _, _)
FirstByteLoop(v, bv, fbs, i) ==
    IF i >= fbs THEN v
    ELSE FirstByteLoop(
            [v EXCEPT ![(i \div 8) + 1] =
                BitOr8(@, Shl8(BoolAsU8(bv[i + 1]), fbs - 1 - i))],
            bv, fbs, i + 1)

\* The iterations i = 8 * (j - 1) + k, k = 0..7, of the second loop, which
\* are the ones that write byte 1 + i / 8 = j (0-based):
\* v[1 + i / 8] |= b << (7 - i % 8).
RECURSIVE RestByte(_, _, _, _, _)
RestByte(byte, bv, fbs, j, k) ==
    LET i == 8 * (j - 1) + k
    IN  IF k > 7 \/ fbs + i >= Len(bv) THEN byte
        ELSE RestByte(BitOr8(byte, Shl8(BoolAsU8(bv[fbs + i + 1]), 7 - (i % 8))),
                      bv, fbs, j, k + 1)

\* The second loop: i runs over bv[first_byte_bitsize..].  Each iteration
\* writes one byte only, so the loop is taken byte by byte (j is the 0-based
\* index of the byte; byte 0 is not written).
RestLoop(v, bv, fbs) ==
    [j1 \in 1..Len(v) |-> IF j1 = 1 THEN v[1] ELSE RestByte(v[j1], bv, fbs, j1 - 1, 0)]

\* boolvec_to_u8vec.  The slice bv[0..first_byte_bitsize] panics when the
\* range end exceeds bv.len(), which is the case exactly for the empty input
\* (rem = 0 gives first_byte_bitsize = 8 > 0).
boolvec_to_u8vec(bv) ==
    LET rem == Len(bv) % 8
        first_byte_bitsize == IF rem = 0 THEN 8 ELSE rem
        offset == IF rem = 0 THEN 0 ELSE 1
        v0 == Zeros((Len(bv) \div 8) + offset)
    IN  IF first_byte_bitsize > Len(bv) THEN Panic
        ELSE Ok(RestLoop(FirstByteLoop(v0, bv, first_byte_bitsize, 0),
                         bv, first_byte_bitsize))

\* u8vec_to_boolvec: for each byte, for i in 0..8, ((byte >> (7 - i)) & 1) != 0.
u8vec_to_boolvec(v) ==
    [k \in 1..(8 * Len(v)) |->
        ((v[((k - 1) \div 8) + 1] \div Pow2(7 - ((k - 1) % 8))) % 2) /= 0]

(***************************************************************************)
(* BigUint (num-bigint): little-endian base-256 digits, normalised         *)
(*                                                                         *)
(* The digit loops carry their accumulator as a parameter; the test        *)
(* Len(acc) + carry < 0 in their exit condition is never true and only     *)
(* makes the accumulator be evaluated at every step.                       *)
(***************************************************************************)

\* Drop the most significant zero digits (the end of the sequence).
RECURSIVE Normalize(_)
Normalize(d) ==
    IF d = << >> \/ d[Len(d)] /= 0 THEN d
    ELSE Normalize(SubSeq(d, 1, Len(d) - 1))

Digit(a, i) == IF i <= Len(a) THEN a[i] ELSE 0

RECURSIVE AddFrom(_, _, _, _, _)
AddFrom(a, b, i, carry, acc) ==
    IF (i > Len(a) /\ i > Len(b)) \/ Len(acc) + carry < 0
    THEN IF carry = 0 THEN acc ELSE Append(acc, carry)
    ELSE LET s == Digit(a, i) + Digit(b, i) + carry
         IN  AddFrom(a, b, i + 1, s \div 256, Append(acc, s % 256))

\* a + b
BigAdd(a, b) == AddFrom(a, b, 1, 0, << >>)

\* Compare from digit i downwards, the numbers being of the same length.
RECURSIVE GeqFrom(_, _, _)
GeqFrom(a, b, i) ==
    IF i = 0 THEN TRUE
    ELSE IF a[i] /= b[i] THEN a[i] > b[i]
    ELSE GeqFrom(a, b, i - 1)

\* a >= b
BigGeq(a, b) ==
    IF Len(a) /= Len(b) THEN Len(a) > Len(b) ELSE GeqFrom(a, b, Len(a))

RECURSIVE SubFrom(_, _, _, _, _)
SubFrom(a, b, i, borrow, acc) ==
    IF i > Len(a) \/ Len(acc) + borrow < 0 THEN acc
    ELSE LET d == a[i] - Digit(b, i) - borrow
         IN  SubFrom(a, b, i + 1, IF d < 0 THEN 1 ELSE 0,
                     Append(acc, IF d < 0 THEN d + 256 ELSE d))

\* a - b, for a >= b
BigSub(a, b) == Normalize(SubFrom(a, b, 1, 0, << >>))

RECURSIVE MulDigitFrom(_, _, _, _, _)
MulDigitFrom(a, m, i, carry, acc) ==
    IF i > Len(a) \/ Len(acc) + carry < 0
    THEN IF carry = 0 THEN acc ELSE Append(acc, carry)
    ELSE LET s == a[i] * m + carry
         IN  MulDigitFrom(a, m, i + 1, s \div 256, Append(acc, s % 256))

RECURSIVE MulFrom(_, _, _, _)
MulFrom(a, b, i, acc) ==
    IF i > Len(b) \/ Len(acc) < 0 THEN acc
    ELSE MulFrom(a, b, i + 1,
                 BigAdd(acc, Zeros(i - 1) \o MulDigitFrom(a, b[i], 1, 0, << >>)))

\* a * b (schoolbook)
BigMul(a, b) == Normalize(MulFrom(a, b, 1, << >>))

\* BigUint::from(2u8).pow(s)
BigPow2(s) == Zeros(s \div 8) \o <<Pow2(s % 8)>>

\* BigUint::from_bytes_be: leading zero bytes carry no value.
from_bytes_be(bytes) == Normalize(Reverse(bytes))

\* BigUint::to_bytes_be / to_bytes_le: the minimal bytes; zero gives [0].
to_bytes_le(v) == IF v = << >> THEN <<0>> ELSE v

to_bytes_be(v) == Reverse(to_bytes_le(v))

\* bits_to_biguint: BigUint::from_bytes_be(&boolvec_to_u8vec(bits))
bits_to_biguint(bits) ==
    LET bytes == boolvec_to_u8vec(bits)
    IN  IF bytes.ok THEN Ok(from_bytes_be(bytes.val)) ELSE Panic

(***************************************************************************)
(* slice::chunks                                                           *)
(***************************************************************************)

\* s.chunks(n) for n > 0: consecutive groups of n, the last one shorter when
\* n does not divide the length.
Chunks(s, n) ==
    [g \in 1..((Len(s) + n - 1) \div n) |->
        SubSeq(s, (g - 1) * n + 1, Min(g * n, Len(s)))]

(***************************************************************************)
(* Field bridge and limbs: src/authdecode/src/backend/halo2/utils.rs       *)
(***************************************************************************)

\* Width of the bit array of bigint_to_256bits and bits_to_limbs.
BitWidth == 256

\* Bits per limb, bits.chunks(64).
LimbBits == 64

\* Bytes of the wide buffer of biguint_to_f.
WideBytes == 64

\* The modulus r of the scalar field bn256::Fr, little-endian:
\* 0x30644e72e131a029b85045b68181585d2833e84879b9709143e1f593f0000001
Modulus ==
    << 1, 0, 0, 240, 147, 245, 225, 67,
       145, 112, 185, 121, 72, 232, 51, 40,
       93, 88, 129, 129, 182, 69, 80, 184,
       41, 160, 49, 225, 114, 78, 100, 48 >>

\* Mutant of bigint_to_256bits: the bits are copied to the front of the
\* array (right-padded) instead of its end.
bigint_to_256bits_RightPadded(bigint) ==
    LET bits == u8vec_to_boolvec(to_bytes_be(bigint))
    IN  IF Len(bits) > BitWidth THEN Panic
        ELSE Ok([i \in 1..BitWidth |-> IF i <= Len(bits) THEN bits[i] ELSE FALSE])

\* bigint_to_256bits.  256 - bits.len() overflows, or the slice start is out
\* of range, when the value takes more than 32 bytes: the call panics.
bigint_to_256bits(bigint) ==
    LET bits == u8vec_to_boolvec(to_bytes_be(bigint))
        start == BitWidth - Len(bits)
    IN  IF Len(bits) > BitWidth THEN Panic
        ELSE Ok([i \in 1..BitWidth |-> IF i <= start THEN FALSE ELSE bits[i - start]])

\* Modulus * 2^k for k = 0..7.
ModulusShifted == [k \in 0..7 |-> BigMul(Modulus, <<Pow2(k)>>)]

\* x mod Modulus for x < 256 * Modulus: conditional subtraction of
\* Modulus * 2^k, k = 7 down to 0.
RECURSIVE ReduceStep(_, _)
ReduceStep(x, k) ==
    LET y == IF BigGeq(x, ModulusShifted[k]) THEN BigSub(x, ModulusShifted[k]) ELSE x
    IN  IF k = 0 THEN y ELSE ReduceStep(y, k - 1)

\* (r * 256^i + the value of bytes 1..i of the little-endian wide) mod Modulus
RECURSIVE ReduceFrom(_, _, _)
ReduceFrom(wide, i, r) ==
    IF i = 0 \/ Len(r) < 0 THEN r
    ELSE ReduceFrom(wide, i - 1, ReduceStep(Normalize(<<wide[i]>> \o r), 7))

\* F::from_uniform_bytes(&wide): the 512-bit little-endian integer reduced
\* modulo r.
from_uniform_bytes(wide) ==
    ReduceFrom(wide, Len(wide), << >>)

\* Field addition.
FAdd(x, y) ==
    LET s == BigAdd(x, y)
    IN  IF BigGeq(s, Modulus) THEN BigSub(s, Modulus) ELSE s

\* Mutant of biguint_to_f: the bytes are taken big-endian (to_bytes_be).
biguint_to_f_BigEndian(biguint) ==
    LET be == to_bytes_be(biguint)
    IN  IF Len(be) > WideBytes THEN Panic
        ELSE Ok(from_uniform_bytes(be \o Zeros(WideBytes - Len(be))))

\* biguint_to_f.  wide[0..le.len()] is out of range for more than 64 bytes.
biguint_to_f(biguint) ==
    LET le == to_bytes_le(biguint)
    IN  IF Len(le) > WideBytes THEN Panic
        ELSE Ok(from_uniform_bytes(le \o Zeros(WideBytes - Len(le))))

\* Mutant of LimbShift: the limbs are weighted least significant first.
LimbShift_Reversed == <<0, 64, 128, 192>>

\* how many bits to left-shift each limb by
LimbShift == <<192, 128, 64, 0>>

\* bits_to_limbs: the collected limbs and shifts are unwrapped into arrays
\* of 4, which fails unless there are exactly 4 chunks.
bits_to_limbs(bits) ==
    LET cs == Chunks(bits, LimbBits)
        limbs == [k \in 1..Len(cs) |-> bits_to_biguint(cs[k])]
    IN  IF Len(cs) /= 4 \/ \E k \in 1..Len(cs) : ~limbs[k].ok THEN Panic
        ELSE Ok([k \in 1..4 |-> BigMul(limbs[k].val, BigPow2(LimbShift[k]))])

(***************************************************************************)
(* Delta matrices: src/authdecode/src/backend/halo2/utils.rs               *)
(***************************************************************************)

\* The geometry constants are imported (lines 1 and 3) from modules that are
\* not part of the sources at hand.  The sources pin them: the comment of
\* convert_and_pad_deltas gives a chunk 14 groups of 253 deltas and a 15th
\* of 128, CHUNK_SIZE = 14 * 253 + 128, and test_deltas_to_matrices has
\* USEFUL_ROWS * CELLS_PER_ROW = CHUNK_SIZE + 14 * 3.
CHUNK_SIZE == 3670

CELLS_PER_ROW == 64

USEFUL_ROWS == 58

\* Chunks with index below this are padded: if i < 14.
PaddedChunks == 14

\* Mutant of IsPadded: off by one, the 15th chunk is padded too.
IsPadded_OffByOne(i) == i <= PaddedChunks

\* The chunks that are padded, by 0-based index.
IsPadded(i) == i < PaddedChunks

\* The width chunks are padded to: vec![F::from(0); 256 - c.len()].
PadWidth == 256

\* F::zero(), F::from(0)
FZero == << >>

\* F::from(n) for n < 2^16
FFrom(n) == Normalize(<<n % 256, n \div 256>>)

\* Mutant of PadChunk: the zeros are put after the chunk.
PadChunk_RightPadded(i, c) ==
    IF IsPadded(i)
    THEN IF Len(c) > PadWidth THEN Panic
         ELSE Ok(c \o [k \in 1..(PadWidth - Len(c)) |-> FZero])
    ELSE Ok(c)

\* The closure of flat_map in convert_and_pad_deltas, for the chunk c of
\* 0-based index i.  256 - c.len() overflows for a longer chunk: the
\* subtraction or the allocation of the wrapped length panics.
PadChunk(i, c) ==
    IF IsPadded(i)
    THEN IF Len(c) > PadWidth THEN Panic
         ELSE Ok([k \in 1..(PadWidth - Len(c)) |-> FZero] \o c)
    ELSE Ok(c)

\* The concatenation of ss[lo], ..., ss[hi].
RECURSIVE FlatRange(_, _, _)
FlatRange(ss, lo, hi) ==
    IF lo > hi THEN << >>
    ELSE IF lo = hi THEN ss[lo]
    ELSE LET mid == (lo + hi) \div 2
         IN  FlatRange(ss, lo, mid) \o FlatRange(ss, mid + 1, hi)

\* convert_and_pad_deltas.  chunks(0) panics.
convert_and_pad_deltas(deltas, useful_bits) ==
    IF useful_bits = 0 THEN Panic
    ELSE LET cs == Chunks(deltas, useful_bits)
             ps == [g \in 1..Len(cs) |-> PadChunk(g - 1, cs[g])]
         IN  IF \E g \in 1..Len(cs) : ~ps[g].ok THEN Panic
             ELSE Ok(FlatRange([g \in 1..Len(cs) |-> ps[g].val], 1, Len(cs)))

\* deltas_to_matrix_of_rows: a chunk that is not CELLS_PER_ROW long, or a
\* number of rows other than USEFUL_ROWS, fails the try_into().unwrap().
deltas_to_matrix_of_rows(deltas) ==
    LET cs == Chunks(deltas, CELLS_PER_ROW)
    IN  IF Len(cs) /= USEFUL_ROWS \/ \E g \in 1..Len(cs) : Len(cs[g]) /= CELLS_PER_ROW
        THEN Panic
        ELSE Ok(cs)

\* Mutant of transpose_rows: the columns are taken from the right.
transpose_rows_Mirrored(matrix) ==
    [i \in 1..CELLS_PER_ROW |-> [j \in 1..USEFUL_ROWS |-> matrix[j][CELLS_PER_ROW + 1 - i]]]

\* transpose_rows: column i collects inner[i] of every row.
transpose_rows(matrix) ==
    [i \in 1..CELLS_PER_ROW |-> [j \in 1..Len(matrix) |-> matrix[j][i]]]

\* Mutant of LengthAccepted: the bound is strict.
LengthAccepted_Strict(n) == n < CHUNK_SIZE

\* assert!(deltas.len() <= CHUNK_SIZE)
LengthAccepted(n) == n <= CHUNK_SIZE

\* deltas_to_matrices
deltas_to_matrices(deltas, useful_bits) ==
    IF ~LengthAccepted(Len(deltas)) THEN Panic
    ELSE LET extended == deltas \o [k \in 1..(CHUNK_SIZE - Len(deltas)) |-> FZero]
             padded == convert_and_pad_deltas(extended, useful_bits)
             deltas_as_rows ==
                 IF padded.ok THEN deltas_to_matrix_of_rows(padded.val) ELSE Panic
         IN  IF ~deltas_as_rows.ok THEN Panic
             ELSE Ok([rows |-> deltas_as_rows.val,
                      cols |-> transpose_rows(deltas_as_rows.val)])

(***************************************************************************)
(* Inputs of the bit codec calls                                           *)
(***************************************************************************)

\* Longest byte buffer of a round trip and longest bit sequence converted.
MaxBytes == 3
MaxBits == 16

ByteVals == {0, 1, 2, 128, 255}

RECURSIVE SeqsUpTo(_, _)
SeqsUpTo(S, n) ==
    IF n = 0 THEN {<< >>}
    ELSE LET shorter == SeqsUpTo(S, n - 1)
         IN  shorter \cup {Append(s, x) : s \in {t \in shorter : Len(t) = n - 1}, x \in S}

ByteBuffers == SeqsUpTo(ByteVals, MaxBytes)

BitSeqs == SeqsUpTo(BOOLEAN, MaxBits)

InitCodec ==
    /\ pc = "call"
    /\ res = NoResult
    /\ \/ call = "roundtrip" /\ arg \in ByteBuffers
       \/ call = "boolvec_to_u8vec" /\ arg \in BitSeqs

\* test_u8vec_to_boolvec, "convert to bits and back to bytes".
RoundTrip ==
    /\ pc = "call" /\ call = "roundtrip"
    /\ res' = boolvec_to_u8vec(u8vec_to_boolvec(arg))
    /\ pc' = "done"
    /\ UNCHANGED <<call, arg>>

BoolvecToU8vec ==
    /\ pc = "call" /\ call = "boolvec_to_u8vec"
    /\ res' = boolvec_to_u8vec(arg)
    /\ pc' = "done"
    /\ UNCHANGED <<call, arg>>

NextCodec == RoundTrip \/ BoolvecToU8vec

SpecCodec == InitCodec /\ [][NextCodec]_vars

(***************************************************************************)
(* Claims about the bit codec (checked under SpecCodec)                    *)
(***************************************************************************)

Done(f) == pc = "done" /\ call = f

\* C1: for every byte buffer B, the empty one included,
\* boolvec_to_u8vec(u8vec_to_boolvec(B)) returns without failing and
\* equals B.  (The code panics on the empty buffer.)
C1_RoundTripAllBuffers ==
    Done("roundtrip") => (res.ok /\ res.val = arg)

\* The binary value of an MSB-first bit sequence.
RECURSIVE BinValue(_)
BinValue(bits) ==
    IF bits = << >> THEN 0
    ELSE 2 * BinValue(SubSeq(bits, 1, Len(bits) - 1)) + BoolAsU8(bits[Len(bits)])

\* The value of a big-endian byte sequence.
RECURSIVE BEValue(_)
BEValue(bytes) ==
    IF bytes = << >> THEN 0
    ELSE 256 * BEValue(SubSeq(bytes, 1, Len(bytes) - 1)) + bytes[Len(bytes)]

\* Bit k (1-based) of the sequence right-aligned in 8 * m bits: the bits in
\* front of the sequence are zero.
AlignedBit(bits, m, k) ==
    LET pad == 8 * m - Len(bits)
    IN  IF k <= pad THEN 0 ELSE BoolAsU8(bits[k - pad])

\* Byte j (1-based) of the right-aligned sequence, MSB first.
AlignedByte(bits, m, j) ==
    LET b(i) == AlignedBit(bits, m, 8 * (j - 1) + i) * Pow2(8 - i)
    IN  b(1) + b(2) + b(3) + b(4) + b(5) + b(6) + b(7) + b(8)

\* C8: for every non-empty bit sequence of length n, boolvec_to_u8vec
\* returns ceil(n/8) bytes whose big-endian value is the binary value of the
\* bits; the first byte holds the n mod 8 leading bits right-aligned with
\* zero high bits, every later byte the next 8 bits MSB first.
C8_RightAlignedBigEndian ==
    (Done("boolvec_to_u8vec") /\ Len(arg) >= 1) =>
        LET m == (Len(arg) + 7) \div 8
        IN  /\ res.ok
            /\ Len(res.val) = m
            /\ \A j \in 1..m : res.val[j] = AlignedByte(arg, m, j)
            /\ BEValue(res.val) = BinValue(arg)

\* test_boolvec_to_u8vec: nine bits, the first byte holds one bit.
C8_Witness ==
    /\ Done("boolvec_to_u8vec")
    /\ arg = <<TRUE, FALSE, FALSE, FALSE, FALSE, FALSE, FALSE, TRUE, TRUE>>
    /\ res = Ok(<<1, 3>>)

(***************************************************************************)
(* Inputs of the field bridge and limb calls                               *)
(***************************************************************************)

\* Longest BigUint handed to bigint_to_256bits, in bytes (32 bytes fit).
MaxVBytes == 33

\* Most bits set (or, inverted, cleared) in an input of bits_to_limbs.
MaxSetBits == 2

TopVals == {1, 3, 128, 255}

FillVals == {0, 165, 255}

\* The BigUint of len bytes with most significant byte top and every other
\* byte fill.
Pattern(len, top, fill) == [i \in 1..len |-> IF i = len THEN top ELSE fill]

BigInputs ==
    {Pattern(len, top, fill) : len \in 0..MaxVBytes, top \in TopVals, fill \in FillVals}

\* Bit positions (1-based, MSB first) around the limb boundaries.
BitPositions == {1, 2, 63, 64, 65, 128, 129, 192, 193, 255, 256}

\* The bits of test_bits_to_limbs: one at the end of every limb.
TestLimbBits == [i \in 1..BitWidth |-> i \in {64, 128, 192, 256}]

LimbInputs ==
    {[i \in 1..BitWidth |-> (i \in S) /= inv] :
        S \in {T \in SUBSET BitPositions : Cardinality(T) <= MaxSetBits},
        inv \in BOOLEAN}
    \cup {TestLimbBits}

\* Operands of the field sum: around zero, around the modulus, 253 random
\* bits as in test_biguint_to_f, and up to the full 64 bytes.
FieldSeeds ==
    { << >>, <<1>>,
      BigSub(Modulus, <<1>>), Modulus, BigAdd(Modulus, <<1>>),
      Pattern(32, 31, 255), Pattern(32, 18, 165), Pattern(32, 255, 255),
      Pattern(33, 1, 0), Pattern(40, 7, 90),
      Pattern(64, 127, 255), Pattern(64, 128, 0), Pattern(64, 255, 255) }

InitField ==
    /\ pc = "call"
    /\ res = NoResult
    /\ \/ call = "bigint_to_256bits" /\ arg \in BigInputs
       \/ call = "bits_to_limbs" /\ arg \in LimbInputs
       \/ call = "biguint_to_f_sum" /\ arg \in [a : FieldSeeds, b : FieldSeeds]

BigintTo256bits ==
    /\ pc = "call" /\ call = "bigint_to_256bits"
    /\ res' = bigint_to_256bits(arg)
    /\ pc' = "done"
    /\ UNCHANGED <<call, arg>>

BitsToLimbs ==
    /\ pc = "call" /\ call = "bits_to_limbs"
    /\ res' = bits_to_limbs(arg)
    /\ pc' = "done"
    /\ UNCHANGED <<call, arg>>

\* test_biguint_to_f: c = a + b; a_f, b_f, c_f = a_f + b_f, biguint_to_f(&c).
BiguintToFSum ==
    /\ pc = "call" /\ call = "biguint_to_f_sum"
    /\ LET a_f == biguint_to_f(arg.a)
           b_f == biguint_to_f(arg.b)
           f_c == biguint_to_f(BigAdd(arg.a, arg.b))
       IN  res' = IF a_f.ok /\ b_f.ok /\ f_c.ok
                  THEN Ok([a_f |-> a_f.val, b_f |-> b_f.val,
                           c_f |-> FAdd(a_f.val, b_f.val), f_c |-> f_c.val])
                  ELSE Panic
    /\ pc' = "done"
    /\ UNCHANGED <<call, arg>>

NextField == BigintTo256bits \/ BitsToLimbs \/ BiguintToFSum

SpecField == InitField /\ [][NextField]_vars

(***************************************************************************)
(* Claims about the field bridge and the limbs (checked under SpecField)   *)
(***************************************************************************)

\* The unsigned value of a 256-bit array, MSB first.
BitsValue(bits) ==
    from_bytes_be([j \in 1..(BitWidth \div 8) |-> AlignedByte(bits, BitWidth \div 8, j)])

\* The array with every bit outside limb k (bits 64k..64k+63, k = 0..3) cleared.
LimbOnly(bits, k) ==
    [i \in 1..BitWidth |-> bits[i] /\ i > 64 * k /\ i <= 64 * k + 64]

\* C5: for every 256-bit array X, bits_to_limbs(X) returns four values,
\* limb k being the value of bits 64k..64k+63 times 2^(192 - 64k), and the
\* sum of the four limbs is the unsigned value of X.
C5_LimbsWeightedAndSumToValue ==
    Done("bits_to_limbs") =>
        /\ res.ok
        /\ Len(res.val) = 4
        /\ \A k \in 0..3 : res.val[k + 1] = BitsValue(LimbOnly(arg, k))
        /\ BigAdd(BigAdd(BigAdd(res.val[1], res.val[2]), res.val[3]), res.val[4])
              = BitsValue(arg)

\* test_bits_to_limbs: the limbs are 2^192, 2^128, 2^64 and 1.
C5_Witness ==
    /\ Done("bits_to_limbs")
    /\ arg = TestLimbBits
    /\ res = Ok(<<BigPow2(192), BigPow2(128), BigPow2(64), <<1>>>>)

\* C6: for every V <= 2^256 - 1 (V = 0 included), bigint_to_256bits(V)
\* returns exactly 256 booleans which bits_to_biguint reads back as V.
C6_Width256AndReadsBack ==
    (Done("bigint_to_256bits") /\ Len(arg) <= 32) =>
        /\ res.ok
        /\ Len(res.val) = 256
        /\ bits_to_biguint(res.val) = Ok(arg)

\* test_bigint_to_256bits: 3 gives 254 zero bits and two one bits.
C6_Witness ==
    /\ Done("bigint_to_256bits")
    /\ arg = <<3>>
    /\ res = Ok([i \in 1..256 |-> i > 254])

\* C7: for all A and B such that A, B and A + B fit the 64-byte buffer,
\* biguint_to_f(A) + biguint_to_f(B) = biguint_to_f(A + B), also when A + B
\* is at least the modulus.
C7_FieldSumIsSumOfFields ==
    (/\ Done("biguint_to_f_sum")
     /\ Len(arg.a) <= 64 /\ Len(arg.b) <= 64
     /\ Len(BigAdd(arg.a, arg.b)) <= 64) =>
        /\ res.ok
        /\ res.val.c_f = res.val.f_c

\* Two operands below the modulus whose sum is not.
C7_Witness ==
    /\ Done("biguint_to_f_sum")
    /\ arg.a = Pattern(32, 31, 255) /\ arg.b = Pattern(32, 18, 165)
    /\ BigGeq(BigAdd(arg.a, arg.b), Modulus)
    /\ ~BigGeq(arg.a, Modulus) /\ ~BigGeq(arg.b, Modulus)
    /\ res.ok /\ res.val.c_f = res.val.f_c
    /\ res.val.c_f /= BigAdd(arg.a, arg.b)

(***************************************************************************)
(* Inputs of the delta matrix calls                                        *)
(***************************************************************************)

\* Delta sequences are tried with lengths 0..MaxShort, up to MaxShort below
\* CHUNK_SIZE, up to MaxOver above it, and around every group boundary.
MaxShort == 3
MaxOver == 2

\* The useful_bits of production and of test_deltas_to_matrices.
USEFUL_BITS == 253

\* The useful_bits deltas_to_matrices is called with.
UsefulBitsTried == {128, USEFUL_BITS - 1, USEFUL_BITS, USEFUL_BITS + 1, 300}

DeltaLengths ==
    (0..MaxShort)
    \cup {g * USEFUL_BITS + d : g \in 1..PaddedChunks, d \in {-1, 0, 1}}
    \cup ((CHUNK_SIZE - MaxShort)..(CHUNK_SIZE + MaxOver))

\* The deltas of test_deltas_to_matrices, at length n: the second-to-last
\* is 2, all others are 1.
OnesTwo(n) == [i \in 1..n |-> IF i = n - 1 THEN FFrom(2) ELSE FFrom(1)]

\* Deltas that tell their place: delta i (1-based) is the field element i.
Index(n) == [i \in 1..n |-> FFrom(i)]

\* convert_and_pad_deltas is called with a CHUNK_SIZE-long sequence and
\* useful_bits from 0 up to MaxOver above the padded width.
DeltaInputs == {OnesTwo(n) : n \in DeltaLengths} \cup {Index(n) : n \in DeltaLengths}

InitMatrix ==
    /\ pc = "call"
    /\ res = NoResult
    /\ \/ /\ call = "deltas_to_matrices"
          /\ arg \in [deltas : DeltaInputs, useful_bits : UsefulBitsTried]
       \/ /\ call = "convert_and_pad_deltas"
          /\ arg \in [deltas : {Index(CHUNK_SIZE)}, useful_bits : 0..(PadWidth + MaxOver)]

DeltasToMatrices ==
    /\ pc = "call" /\ call = "deltas_to_matrices"
    /\ res' = deltas_to_matrices(arg.deltas, arg.useful_bits)
    /\ pc' = "done"
    /\ UNCHANGED <<call, arg>>

ConvertAndPadDeltas ==
    /\ pc = "call" /\ call = "convert_and_pad_deltas"
    /\ res' = convert_and_pad_deltas(arg.deltas, arg.useful_bits)
    /\ pc' = "done"
    /\ UNCHANGED <<call, arg>>

NextMatrix == DeltasToMatrices \/ ConvertAndPadDeltas

SpecMatrix == InitMatrix /\ [][NextMatrix]_vars

(***************************************************************************)
(* Claims about the delta matrices (checked under SpecMatrix)              *)
(***************************************************************************)

\* The number of elements of a matrix (the length of its concat()).
RECURSIVE CountFrom(_, _)
CountFrom(matrix, g) ==
    IF g > Len(matrix) THEN 0 ELSE Len(matrix[g]) + CountFrom(matrix, g + 1)

ElementCount(matrix) == CountFrom(matrix, 1)

\* What the shape test of the spec states of a call's result: equal element
\* counts, the input length plus 14 * 3, the value 2 second-to-last in the
\* last row and last in the second-to-last column.
ShapeAndContentOfTest ==
    /\ res.ok
    /\ ElementCount(res.val.rows) = ElementCount(res.val.cols)
    /\ ElementCount(res.val.rows) = Len(arg.deltas) + 14 * 3
    /\ LET row == res.val.rows[Len(res.val.rows)]
       IN  row[Len(row) - 1] = FFrom(2)
    /\ LET col == res.val.cols[Len(res.val.cols) - 1]
       IN  col[Len(col)] = FFrom(2)

\* C2 as stated: for the delta sequence of length CHUNK_SIZE - 2 whose
\* second-to-last element is 2 and whose others are 1, with useful_bits 253,
\* both matrices hold the input length plus 14 * 3 elements and the value 2
\* is second-to-last in the last row and last in the second-to-last column.
C2_Original_LengthCMinus2 ==
    (/\ Done("deltas_to_matrices")
     /\ arg.useful_bits = 253
     /\ arg.deltas = OnesTwo(CHUNK_SIZE - 2)) => ShapeAndContentOfTest

\* C2 amended: the same for the delta sequence of length CHUNK_SIZE
\* (CHUNK_SIZE - 2 ones, then 2, then 1), the input of
\* test_deltas_to_matrices.
C2_Amended_LengthC ==
    (/\ Done("deltas_to_matrices")
     /\ arg.useful_bits = 253
     /\ arg.deltas = OnesTwo(CHUNK_SIZE)) => ShapeAndContentOfTest

C2_Witness ==
    /\ Done("deltas_to_matrices")
    /\ arg.useful_bits = 253
    /\ arg.deltas = OnesTwo(CHUNK_SIZE)
    /\ res.ok
    /\ res.val.rows[USEFUL_ROWS][CELLS_PER_ROW - 1] = FFrom(2)
    /\ res.val.rows[1][1] = FZero

\* C3: with useful_bits = 253, deltas_to_matrices returns both matrices for
\* a delta sequence of length exactly CHUNK_SIZE and panics for every
\* longer one.
C3_CapacityBoundary ==
    (Done("deltas_to_matrices") /\ arg.useful_bits = 253) =>
        /\ Len(arg.deltas) = CHUNK_SIZE =>
              /\ res.ok
              /\ Len(res.val.rows) = USEFUL_ROWS
              /\ Len(res.val.cols) = CELLS_PER_ROW
        /\ Len(arg.deltas) >= CHUNK_SIZE + 1 => res = Panic

\* One delta too many: the call has panicked.
C3_Witness ==
    /\ Done("deltas_to_matrices")
    /\ arg.useful_bits = 253
    /\ Len(arg.deltas) = CHUNK_SIZE + 1
    /\ res = Panic

\* How many elements of the matrix equal v.
Occurrences(matrix, v) ==
    Cardinality({<<g, h>> \in (1..Len(matrix)) \X (1..Len(matrix[1])) : matrix[g][h] = v})

\* C4: for every accepted delta sequence the column-major matrix is the
\* transpose of the row-major one, columns[i][j] = rows[j][i] for all
\* i < CELLS_PER_ROW and j < USEFUL_ROWS; both hold USEFUL_ROWS *
\* CELLS_PER_ROW elements, with every probed value as often in one as in
\* the other.
C4_ColumnsAreTransposeOfRows ==
    (Done("deltas_to_matrices") /\ res.ok) =>
        /\ Len(res.val.rows) = USEFUL_ROWS
        /\ Len(res.val.cols) = CELLS_PER_ROW
        /\ \A i \in 1..CELLS_PER_ROW : Len(res.val.cols[i]) = USEFUL_ROWS
        /\ \A j \in 1..USEFUL_ROWS : Len(res.val.rows[j]) = CELLS_PER_ROW
        /\ \A i \in 1..CELLS_PER_ROW : \A j \in 1..USEFUL_ROWS :
              res.val.cols[i][j] = res.val.rows[j][i]
        /\ ElementCount(res.val.cols) = USEFUL_ROWS * CELLS_PER_ROW
        /\ ElementCount(res.val.rows) = USEFUL_ROWS * CELLS_PER_ROW
        /\ \A v \in {FZero, FFrom(1), FFrom(2), FFrom(Len(arg.deltas))} :
              Occurrences(res.val.cols, v) = Occurrences(res.val.rows, v)

\* Distinct deltas: delta 1 follows the three zeros of the first row, so it
\* heads the fourth column, and the matrix is not symmetric.
C4_Witness ==
    /\ Done("deltas_to_matrices")
    /\ arg.deltas = Index(CHUNK_SIZE)
    /\ res.ok
    /\ res.val.cols[4][1] = FFrom(1)
    /\ res.val.cols[1][4] = FFrom(3 * CELLS_PER_ROW - 3 + 1)
    /\ res.val.rows[4][1] /= res.val.cols[4][1]

\* Element k (1-based) of the reference sequence of C9 for the deltas d:
\* d right-padded with zeros to CHUNK_SIZE, in groups of 253; each of the
\* first 14 groups as 3 zeros and its 253 deltas, then the last group.
ReferenceElement(d, k) ==
    LET at(n) == IF n <= Len(d) THEN d[n] ELSE FZero
        g == (k - 1) \div 256
        off == (k - 1) % 256
    IN  IF g < 14
        THEN IF off < 3 THEN FZero ELSE at(g * 253 + (off - 3) + 1)
        ELSE at(14 * 253 + (k - 1 - 14 * 256) + 1)

\* C9: for every delta sequence of length <= CHUNK_SIZE and useful_bits =
\* 253, the row-major matrix read row by row is the reference sequence of
\* CHUNK_SIZE + 14 * 3 elements.
C9_RowsAreLeftPaddedGroups ==
    (/\ Done("deltas_to_matrices")
     /\ arg.useful_bits = 253
     /\ Len(arg.deltas) <= CHUNK_SIZE) =>
        /\ res.ok
        /\ ElementCount(res.val.rows) = CHUNK_SIZE + 14 * 3
        /\ \A k \in 1..(CHUNK_SIZE + 14 * 3) :
              res.val.rows[((k - 1) \div CELLS_PER_ROW) + 1][((k - 1) % CELLS_PER_ROW) + 1]
                  = ReferenceElement(arg.deltas, k)

\* 254 distinct deltas: the second group starts with 3 zeros and the last
\* delta, and the zeros of the right padding follow.
C9_Witness ==
    /\ Done("deltas_to_matrices")
    /\ arg.useful_bits = 253
    /\ arg.deltas = Index(254)
    /\ res.ok
    /\ res.val.rows[4][64] = FFrom(253)
    /\ res.val.rows[5][3] = FZero
    /\ res.val.rows[5][4] = FFrom(254)
    /\ res.val.rows[5][5] = FZero

\* The padded sequence when every group but the last of the groups of u is
\* left-padded to 256: its length and its element k (1-based).
AllButLastLength(d, u) ==
    LET groups == (Len(d) + u - 1) \div u
    IN  Len(d) + (groups - 1) * (256 - u)

AllButLastElement(d, u, k) ==
    LET groups == (Len(d) + u - 1) \div u
        g == Min((k - 1) \div 256, groups - 1)
        off == (k - 1) - g * 256
    IN  IF g < groups - 1
        THEN IF off < 256 - u THEN FZero ELSE d[g * u + (off - (256 - u)) + 1]
        ELSE d[g * u + off + 1]

\* C10: for every useful_bits U in 1..256 and every CHUNK_SIZE-long delta
\* sequence, convert_and_pad_deltas left-pads to 256 every group of U but
\* the positionally last one: the groups padded are (all groups - 1).
\* (The code pads the first 14 groups, however many there are.)
C10_PadsAllGroupsButTheLast ==
    (/\ Done("convert_and_pad_deltas")
     /\ arg.useful_bits >= 1 /\ arg.useful_bits <= 256
     /\ Len(arg.deltas) = CHUNK_SIZE) =>
        /\ res.ok
        /\ Len(res.val) = AllButLastLength(arg.deltas, arg.useful_bits)
        /\ \A k \in 1..Len(res.val) :
              res.val[k] = AllButLastElement(arg.deltas, arg.useful_bits, k)

====
